---- MODULE Spec2Model ----
(***************************************************************************)
(* Bitcoin Well -> Koinly CSV converter (App component).                   *)
(*                                                                         *)
(* JavaScript strings are TLA+ strings; a JavaScript value that may be     *)
(* undefined is a record [type, val].  A source row is a function from the *)
(* keys the parsed file gave it to strings: a key the file lacks is not in *)
(* its DOMAIN, and reading it yields undefined.  Time values are kept in   *)
(* seconds since the epoch (the input format has no fraction of a second), *)
(* which keeps every product inside TLC's 32-bit integers for the years     *)
(* 1970..2037.                                                             *)
(***************************************************************************)
EXTENDS Integers, Sequences, FiniteSets, TLC

VARIABLES
  koinlyCsv,      \* App state: the generated CSV
  error,          \* App state: the error message
  pending,        \* parses started whose complete callback has not run yet
  data,           \* the last complete callback: results.data
  outcome,        \*   how it ended: "idle", "parse-error", "threw", "returned"
  filteredData,   \*   its filteredData
  calls,          \*   the calls of convertRow it made, each with its outcome
  convertedRows,  \*   its convertedRows
  emitted,        \*   the rowValues generateKoinlyCsv built, one array per row
  dateStr,        \* argument of one call of convertMountainTimeToUTC
  utcStr,         \* its outcome
  row,            \* argument of one call of convertRow
  mapped          \* its outcome

vars == <<koinlyCsv, error, pending, data, outcome, filteredData, calls, convertedRows,
          emitted, dateStr, utcStr, row, mapped>>

lastRun == <<data, outcome, filteredData, calls, convertedRows, emitted>>

\* ------------------------------------------------------------------------
\* JavaScript values and string primitives

Str(s) == [type |-> "string", val |-> s]

Undefined == [type |-> "undefined", val |-> ""]

\* row[key]
Get(r, key) == IF key \in DOMAIN r THEN Str(r[key]) ELSE Undefined

\* ToBoolean of a string-or-undefined value
Truthy(v) == v.type = "string" /\ v.val # ""

\* a || ""
OrEmpty(v) == IF Truthy(v) THEN v ELSE Str("")

\* a ?? ""
NullishEmpty(v) == IF v.type = "undefined" THEN Str("") ELSE v

\* (a && a !== "-") ? a : ""
PlaceholderEmpty(v) == IF Truthy(v) /\ v # Str("-") THEN v ELSE Str("")

CharAt(s, i) == SubSeq(s, i, i)

UpperCaseLetters == "ABCDEFGHIJKLMNOPQRSTUVWXYZ"

LowerCaseLetters == "abcdefghijklmnopqrstuvwxyz"

LowerChar(c) ==
  IF \E i \in 1..Len(UpperCaseLetters) : CharAt(UpperCaseLetters, i) = c
  THEN CharAt(LowerCaseLetters,
              CHOOSE i \in 1..Len(UpperCaseLetters) : CharAt(UpperCaseLetters, i) = c)
  ELSE c

RECURSIVE toLowerCase(_)
toLowerCase(s) ==
  IF s = "" THEN "" ELSE LowerChar(CharAt(s, 1)) \o toLowerCase(SubSeq(s, 2, Len(s)))

\* String.prototype.includes
includes(s, sub) ==
  \E i \in 1..(Len(s) - Len(sub) + 1) : SubSeq(s, i, i + Len(sub) - 1) = sub

\* String.prototype.replace(pat, by) with a string pattern: the first match only
replaceFirst(s, pat, by) ==
  IF includes(s, pat)
  THEN LET i == CHOOSE k \in 1..(Len(s) - Len(pat) + 1) :
                  /\ SubSeq(s, k, k + Len(pat) - 1) = pat
                  /\ \A j \in 1..(k - 1) : SubSeq(s, j, j + Len(pat) - 1) # pat
       IN SubSeq(s, 1, i - 1) \o by \o SubSeq(s, i + Len(pat), Len(s))
  ELSE s

\* String.prototype.replace(/c/g, by) for a one-character pattern: every match
RECURSIVE replaceAll(_, _, _)
replaceAll(s, c, by) ==
  IF s = "" THEN ""
  ELSE (IF CharAt(s, 1) = c THEN by ELSE CharAt(s, 1))
       \o replaceAll(SubSeq(s, 2, Len(s)), c, by)

Digits == "0123456789"

IsDigit(c) == \E i \in 1..Len(Digits) : CharAt(Digits, i) = c

DigitVal(c) == (CHOOSE i \in 1..Len(Digits) : CharAt(Digits, i) = c) - 1

AllDigits(s) == \A i \in 1..Len(s) : IsDigit(CharAt(s, i))

RECURSIVE ToNumber(_)
ToNumber(s) ==
  IF s = "" THEN 0
  ELSE 10 * ToNumber(SubSeq(s, 1, Len(s) - 1)) + DigitVal(CharAt(s, Len(s)))

\* Number.prototype.toString for a non-negative integer
RECURSIVE NumberToString(_)
NumberToString(n) ==
  IF n < 10 THEN CharAt(Digits, n + 1)
  ELSE NumberToString(n \div 10) \o CharAt(Digits, (n % 10) + 1)

\* String.prototype.padStart(2, '0')
padStart2(s) == IF Len(s) >= 2 THEN s ELSE IF Len(s) = 1 THEN "0" \o s ELSE "00"

\* ------------------------------------------------------------------------
\* The Date object: ECMA-262 time values, in seconds

NaN == [nan |-> TRUE, t |-> 0]

Finite(n) == [nan |-> FALSE, t |-> n]

SecondsPerMinute == 60

SecondsPerHour == 60 * 60

SecondsPerDay == 24 * 60 * 60

DaysInYear(y) ==
  IF y % 4 # 0 THEN 365
  ELSE IF y % 100 # 0 THEN 366
  ELSE IF y % 400 # 0 THEN 365
  ELSE 366

DayFromYear(y) ==
  365 * (y - 1970) + ((y - 1969) \div 4) - ((y - 1901) \div 100) + ((y - 1601) \div 400)

Day(t) == t \div SecondsPerDay

YearFromTime(t) ==
  CHOOSE y \in (1970 + (Day(t) \div 366))..(1970 + (Day(t) \div 365)) :
    DayFromYear(y) <= Day(t) /\ Day(t) < DayFromYear(y + 1)

InLeapYear(t) == IF DaysInYear(YearFromTime(t)) = 366 THEN 1 ELSE 0

DayWithinYear(t) == Day(t) - DayFromYear(YearFromTime(t))

\* first day within the year of month m (0-based; m = 12 is the year's length)
MonthStart(m, leap) ==
  IF m = 0 THEN 0
  ELSE IF m = 1 THEN 31
  ELSE <<59, 90, 120, 151, 181, 212, 243, 273, 304, 334, 365>>[m - 1] + leap

MonthFromTime(t) ==
  CHOOSE m \in 0..11 :
    /\ MonthStart(m, InLeapYear(t)) <= DayWithinYear(t)
    /\ DayWithinYear(t) < MonthStart(m + 1, InLeapYear(t))

DateFromTime(t) == DayWithinYear(t) - MonthStart(MonthFromTime(t), InLeapYear(t)) + 1

HourFromTime(t) == (t \div SecondsPerHour) % 24

MinFromTime(t) == (t \div SecondsPerMinute) % 60

\* MakeDay(year, month, date) with month 0-based
MakeDay(year, month, date) ==
  DayFromYear(year) + MonthStart(month, IF DaysInYear(year) = 366 THEN 1 ELSE 0) + date - 1

MakeTime(hour, min, sec) == hour * SecondsPerHour + min * SecondsPerMinute + sec

MakeDate(day, time) == day * SecondsPerDay + time

\* The pieces of a date-time string "YYYY-MM-DDTHH:mm[:ss](+|-)HH:mm".  n is the
\* length of the time part, 5 for HH:mm and 8 for HH:mm:ss.
IsoShape(s, n) ==
  /\ Len(s) = 17 + n
  /\ AllDigits(SubSeq(s, 1, 4))
  /\ CharAt(s, 5) = "-"
  /\ AllDigits(SubSeq(s, 6, 7))
  /\ CharAt(s, 8) = "-"
  /\ AllDigits(SubSeq(s, 9, 10))
  /\ CharAt(s, 11) = "T"
  /\ AllDigits(SubSeq(s, 12, 13))
  /\ CharAt(s, 14) = ":"
  /\ AllDigits(SubSeq(s, 15, 16))
  /\ (n = 8 => CharAt(s, 17) = ":" /\ AllDigits(SubSeq(s, 18, 19)))
  /\ CharAt(s, 12 + n) \in {"+", "-"}
  /\ AllDigits(SubSeq(s, 13 + n, 14 + n))
  /\ CharAt(s, 15 + n) = ":"
  /\ AllDigits(SubSeq(s, 16 + n, 17 + n))

IsoFields(s, n) ==
  [year  |-> ToNumber(SubSeq(s, 1, 4)),
   month |-> ToNumber(SubSeq(s, 6, 7)),
   day   |-> ToNumber(SubSeq(s, 9, 10)),
   hour  |-> ToNumber(SubSeq(s, 12, 13)),
   min   |-> ToNumber(SubSeq(s, 15, 16)),
   sec   |-> IF n = 8 THEN ToNumber(SubSeq(s, 18, 19)) ELSE 0,
   sign  |-> IF CharAt(s, 12 + n) = "-" THEN -1 ELSE 1,
   tzh   |-> ToNumber(SubSeq(s, 13 + n, 14 + n)),
   tzm   |-> ToNumber(SubSeq(s, 16 + n, 17 + n))]

IsoInRange(f) ==
  /\ f.month \in 1..12
  /\ f.day \in 1..31
  /\ f.hour \in 0..24
  /\ (f.hour = 24 => f.min = 0 /\ f.sec = 0)
  /\ f.min \in 0..59
  /\ f.sec \in 0..59
  /\ f.tzh \in 0..23
  /\ f.tzm \in 0..59

\* new Date(string): the time value of a date-time string with an offset, NaN
\* for a string that is not one.  (A day past its month's end, which engines
\* treat differently, is in none of the inputs drawn below.)
DateParse(s) ==
  LET n == IF Len(s) = 25 THEN 8 ELSE 5
  IN IF IsoShape(s, n) /\ IsoInRange(IsoFields(s, n))
     THEN LET f == IsoFields(s, n)
              local == MakeDate(MakeDay(f.year, f.month - 1, f.day),
                                MakeTime(f.hour, f.min, f.sec))
          IN Finite(local - f.sign * (f.tzh * SecondsPerHour + f.tzm * SecondsPerMinute))
     ELSE NaN

\* `${n}` and n.toString() of a number that may be NaN
NumStr(d, n) == IF d.nan THEN "NaN" ELSE NumberToString(n)

\* ------------------------------------------------------------------------
\* convertMountainTimeToUTC

Returned(v) == [status |-> "returned", val |-> v]

TypeError == [status |-> "threw", val |-> "TypeError"]

NotCalled == [status |-> "idle", val |-> ""]

\* the offset with its sign wrong
MountainOffsetEast == "+07:00"

MountainOffset == "-07:00"

convertMountainTimeToUTC(v) ==
  IF v.type = "undefined" THEN TypeError
  ELSE
    LET isoDateStr == replaceFirst(v.val, " ", "T") \o MountainOffset
        date    == DateParse(isoDateStr)
        year    == NumStr(date, YearFromTime(date.t))
        month   == padStart2(NumStr(date, MonthFromTime(date.t) + 1))
        day     == padStart2(NumStr(date, DateFromTime(date.t)))
        hours   == padStart2(NumStr(date, HourFromTime(date.t)))
        minutes == padStart2(NumStr(date, MinFromTime(date.t)))
    IN Returned(year \o "-" \o month \o "-" \o day \o " " \o hours \o ":" \o minutes \o " UTC")

\* ------------------------------------------------------------------------
\* convertRow

headers ==
  <<"Date", "Sent Amount", "Sent Currency", "Received Amount", "Received Currency",
    "Fee Amount", "Fee Currency", "Net Worth Amount", "Net Worth Currency",
    "Label", "Description", "TxHash">>

\* the object literal each branch of convertRow returns
KoinlyRow(date, sentAmount, sentCurrency, receivedAmount, receivedCurrency, feeAmount, feeCurrency, label, txHash) ==
  ("Date" :> date) @@ ("Sent Amount" :> sentAmount) @@ ("Sent Currency" :> sentCurrency)
  @@ ("Received Amount" :> receivedAmount) @@ ("Received Currency" :> receivedCurrency)
  @@ ("Fee Amount" :> feeAmount) @@ ("Fee Currency" :> feeCurrency)
  @@ ("Net Worth Amount" :> Str("")) @@ ("Net Worth Currency" :> Str(""))
  @@ ("Label" :> label) @@ ("Description" :> Str("")) @@ ("TxHash" :> txHash)

\* BuyRow applying the placeholder rule to the crypto amount as well
BuyRowEmptiesCrypto(r, date, feeAmount, txHash, label) ==
  KoinlyRow(date,
            PlaceholderEmpty(Get(r, "Fiat Amount")), OrEmpty(Get(r, "Fiat Code")),
            PlaceholderEmpty(Get(r, "Crypto Amount")), Get(r, "Crypto Code"),
            feeAmount, OrEmpty(Get(r, "Crypto Code")), label, txHash)

BuyRow(r, date, feeAmount, txHash, label) ==
  KoinlyRow(date,
            PlaceholderEmpty(Get(r, "Fiat Amount")), OrEmpty(Get(r, "Fiat Code")),
            Get(r, "Crypto Amount"), Get(r, "Crypto Code"),
            feeAmount, OrEmpty(Get(r, "Crypto Code")), label, txHash)

\* SellRow with the two sides the way round the buy mapping has them
SellRowSidesSwapped(r, date, feeAmount, txHash) ==
  KoinlyRow(date,
            PlaceholderEmpty(Get(r, "Fiat Amount")), OrEmpty(Get(r, "Fiat Code")),
            Get(r, "Crypto Amount"), Get(r, "Crypto Code"),
            feeAmount, OrEmpty(Get(r, "Crypto Code")), Str("Sell"), txHash)

\* SellRow charging the fee in the fiat currency
SellRowFiatFee(r, date, feeAmount, txHash) ==
  KoinlyRow(date,
            Get(r, "Crypto Amount"), Get(r, "Crypto Code"),
            PlaceholderEmpty(Get(r, "Fiat Amount")), OrEmpty(Get(r, "Fiat Code")),
            feeAmount, OrEmpty(Get(r, "Fiat Code")), Str("Sell"), txHash)

SellRow(r, date, feeAmount, txHash) ==
  KoinlyRow(date,
            Get(r, "Crypto Amount"), Get(r, "Crypto Code"),
            PlaceholderEmpty(Get(r, "Fiat Amount")), OrEmpty(Get(r, "Fiat Code")),
            feeAmount, OrEmpty(Get(r, "Crypto Code")), Str("Sell"), txHash)

\* OtherLabel taking the lower-cased text used for classification
OtherLabelLowered(r) == Str(toLowerCase(r["Order Type"]))

\* the Label of the default mapping
OtherLabel(r) == Get(r, "Order Type")

convertRow(r) ==
  LET date == convertMountainTimeToUTC(Get(r, "Order Date"))
  IN IF date.status = "threw" THEN TypeError
     ELSE IF Get(r, "Order Type").type = "undefined" THEN TypeError
     ELSE
       LET orderType == toLowerCase(r["Order Type"])
           txHash    == OrEmpty(Get(r, "Transaction Hash"))
           feeAmount == PlaceholderEmpty(Get(r, "Miner Fee"))
       IN IF includes(orderType, "buy")
          THEN Returned(BuyRow(r, Str(date.val), feeAmount, txHash, Str("Buy")))
          ELSE IF includes(orderType, "sell")
          THEN Returned(SellRow(r, Str(date.val), feeAmount, txHash))
          ELSE Returned(BuyRow(r, Str(date.val), feeAmount, txHash, OtherLabel(r)))

\* ------------------------------------------------------------------------
\* generateKoinlyCsv

RECURSIVE join(_, _)
join(parts, sep) ==
  IF Len(parts) = 0 THEN ""
  ELSE IF Len(parts) = 1 THEN parts[1]
  ELSE parts[1] \o sep \o join(Tail(parts), sep)

\* escapeValue that looks for commas only
escapeValueCommaOnly(value) ==
  IF includes(value, ",")
  THEN "\"" \o replaceAll(value, "\"", "\"\"") \o "\""
  ELSE value

\* escapeValue that wraps the value without doubling its quotes
escapeValueQuotesKept(value) ==
  IF includes(value, ",") \/ includes(value, "\"")
  THEN "\"" \o value \o "\""
  ELSE value

\* the escaping branch of headers.map's callback, on the string value
escapeValue(value) ==
  IF includes(value, ",") \/ includes(value, "\"")
  THEN "\"" \o replaceAll(value, "\"", "\"\"") \o "\""
  ELSE value

\* rowValues of one row: headers.map(...)
rowValues(koinlyRow) ==
  [i \in 1..Len(headers) |-> escapeValue(NullishEmpty(koinlyRow[headers[i]]).val)]

csvRows(rows) ==
  <<join(headers, ",")>> \o [k \in 1..Len(rows) |-> join(rowValues(rows[k]), ",")]

generateKoinlyCsv(rows) == join(csvRows(rows), "\n")

\* ------------------------------------------------------------------------
\* The complete callback's pipeline: filter, map, generate

\* notSwap comparing the Order Type as written, without lower-casing it
notSwapCaseSensitive(r) == ~includes(r["Order Type"], "swap")

\* the filter's predicate, on a row that has an Order Type
notSwap(r) == ~includes(toLowerCase(r["Order Type"]), "swap")

\* data.filter(...): the predicate reads row["Order Type"].toLowerCase() of every row
filterRows(rows) ==
  IF \E i \in 1..Len(rows) : Get(rows[i], "Order Type").type = "undefined"
  THEN TypeError
  ELSE Returned(SelectSeq(rows, notSwap))

\* filteredData.map(convertRow): the calls made, up to and including the first that throws
RECURSIVE convertCalls(_)
convertCalls(rows) ==
  IF Len(rows) = 0 THEN <<>>
  ELSE LET call == [arg |-> Head(rows), outcome |-> convertRow(Head(rows))]
       IN IF call.outcome.status = "threw" THEN <<call>>
          ELSE <<call>> \o convertCalls(Tail(rows))

\* ------------------------------------------------------------------------
\* Inputs

\* a source row from one optional value per key the code reads; Transaction ID
\* and Rate stand for the columns the code never reads
SourceRow(orderType, orderDate, fiatAmount, fiatCode, cryptoAmount, cryptoCode, minerFee, txHash) ==
  LET given == ("Order Type" :> orderType) @@ ("Order Date" :> orderDate)
               @@ ("Fiat Amount" :> fiatAmount) @@ ("Fiat Code" :> fiatCode)
               @@ ("Crypto Amount" :> cryptoAmount) @@ ("Crypto Code" :> cryptoCode)
               @@ ("Miner Fee" :> minerFee) @@ ("Transaction Hash" :> txHash)
               @@ ("Transaction ID" :> Str("tx-1")) @@ ("Rate" :> Str("47619.04"))
  IN [k \in {j \in DOMAIN given : given[j].type = "string"} |-> given[k].val]

\* Order Types of rows that pass the filter, the only ones convertRow is given
OrderTypes ==
  {Str("Buy"), Str("buy"), Str("bUY then sell"), Str("SELL"), Str("Sell BTC"),
   Str("Deposit"), Str("Withdrawal, fee"), Str("")}

OrderDates == {Str("2024-01-15 10:00:00"), Str("2024-12-31 17:30:59"), Str("15/01/2024"), Undefined}

FiatAmounts == {Str("100.00"), Str("-"), Str(""), Undefined}

FiatCodes == {Str("CAD"), Undefined}

CryptoAmounts == {Str("0.0021"), Str("-"), Undefined}

CryptoCodes == {Str("BTC"), Str(""), Undefined}

MinerFees == {Str("0.00001"), Str("-"), Str(""), Undefined}

TxHashes == {Str("abc123"), Str(""), Undefined}

\* the rows convertRow is applied to, one call each
RowInputs ==
  {SourceRow(ot, od, fa, fc, ca, cc, mf, th) :
     ot \in OrderTypes, od \in OrderDates, fa \in FiatAmounts, fc \in FiatCodes,
     ca \in CryptoAmounts, cc \in CryptoCodes, mf \in MinerFees, th \in TxHashes}

TwoDigits(n) == CharAt(Digits, (n \div 10) + 1) \o CharAt(Digits, (n % 10) + 1)

FourDigits(n) == TwoDigits(n \div 100) \o TwoDigits(n % 100)

LastDayOfMonth(y, m) ==
  IF m = 2 THEN (IF (y % 4 = 0 /\ y % 100 # 0) \/ y % 400 = 0 THEN 29 ELSE 28)
  ELSE IF m \in {4, 6, 9, 11} THEN 30 ELSE 31

Years == {1999, 2000, 2023, 2024}

DaysOfMonth == {1, 15, 28, 29, 30, 31}

HoursOfDay == {0, 10, 16, 17, 23}

MinutesOfHour == {0, 30, 59}

SecondsOfMinute == {0, 59}

StampText(y, m, d, h, mi, sec) ==
  FourDigits(y) \o "-" \o TwoDigits(m) \o "-" \o TwoDigits(d) \o " "
  \o TwoDigits(h) \o ":" \o TwoDigits(mi) \o ":" \o TwoDigits(sec)

\* "YYYY-MM-DD HH:mm:ss" of calendar dates that exist
WellFormedStamps ==
  {StampText(c[1], c[2], c[3], c[4], c[5], c[6]) :
     c \in {x \in Years \X (1..12) \X DaysOfMonth \X HoursOfDay \X MinutesOfHour \X SecondsOfMinute :
              x[3] <= LastDayOfMonth(x[1], x[2])}}

\* order dates that do not have the form "YYYY-MM-DD HH:mm:ss".  Two of them,
\* without seconds and with a T, are date-time strings all the same once the
\* offset is appended; the others are rejected by the engines in use.
MalformedStamps ==
  {"", "-", "garbage", "15/01/2024", "2024-01-15 10:00", "2024-01-15T10:00:00",
   "2024-13-01 10:00:00", "2024-01-15 25:00:00", "2024-01-15 10:60:00"}

TimeInputs == {Str(s) : s \in WellFormedStamps \cup MalformedStamps} \cup {Undefined}

\* the rows of the files handed to the pipeline
FileRows ==
  {SourceRow(Str("Buy"), Str("2024-01-15 10:00:00"), Str("100.00"), Str("CAD"),
             Str("0.0021"), Str("BTC"), Str("-"), Str("abc123")),
   SourceRow(Str("SELL"), Str("2024-12-31 17:30:59"), Str("-"), Str("CAD"),
             Str("0.5"), Str("BTC"), Str("0.00001"), Str("a,b")),
   SourceRow(Str("Swap BTC/ETH"), Str("2024-01-15 10:00:00"), Str("-"), Str(""),
             Str("1"), Str("BTC"), Str("-"), Str("")),
   SourceRow(Str("sWAP: buy"), Str("2024-01-15 10:00:00"), Str("5"), Str("CAD"),
             Str("1"), Str("BTC"), Str("-"), Str("")),
   SourceRow(Str("Tom, \"Bones\""), Str("2024-01-15 10:00:00"), Str("1,000.00"), Str("CAD"),
             Str("0.02"), Str("BTC"), Str("0.00001"), Str("say \"hi\"")),
   SourceRow(Str("Deposit"), Str("2024-02-28 23:59:59"), Str(""), Str("CAD"),
             Undefined, Undefined, Undefined, Str("line1\nline2")),
   SourceRow(Str("buy"), Str("garbage"), Str("100.00"), Str("CAD"),
             Str("0.0021"), Str("BTC"), Str("-"), Undefined),
   SourceRow(Undefined, Str("2024-01-15 10:00:00"), Str("100.00"), Str("CAD"),
             Str("0.0021"), Str("BTC"), Str("-"), Str("abc123")),
   SourceRow(Str("Sell"), Undefined, Str("100.00"), Str("CAD"),
             Str("0.0021"), Str("BTC"), Str("-"), Str("abc123"))}

MaxRows == 2

RECURSIVE SeqsUpTo(_, _)
SeqsUpTo(S, n) ==
  IF n = 0 THEN {<<>>}
  ELSE LET shorter == SeqsUpTo(S, n - 1)
       IN shorter \cup {Append(q, x) : q \in {p \in shorter : Len(p) = n - 1}, x \in S}

FileData == SeqsUpTo(FileRows, MaxRows)

\* the files the App is given: few, since the stored CSV, the last callback
\* and the parses in flight multiply
AppFiles == {d \in FileData : Len(d) <= 1}

MaxPending == 2

\* what a parse hands its complete callback
Parsed(d) == [errors |-> FALSE, data |-> d]

ParseFailed == [errors |-> TRUE, data |-> <<>>]

\* a parse that reports errors and hands over the rows it read all the same
ParsedWithErrors(d) == [errors |-> TRUE, data |-> d]

\* the files for which the parser reports an error and hands over rows
FlawedFiles ==
  {d \in AppFiles : /\ Len(d) = 1
                    /\ "Order Type" \in DOMAIN d[1]
                    /\ d[1]["Order Type"] \in {"Buy", "SELL"}}

ParseResults ==
  {Parsed(d) : d \in AppFiles} \cup {ParseFailed} \cup {ParsedWithErrors(d) : d \in FlawedFiles}

\* ------------------------------------------------------------------------
\* The App: handleFileUpload and the parse's complete callback

AppIdle == koinlyCsv = "" /\ error = ""

RunIdle ==
  /\ data = <<>>
  /\ outcome = "idle"
  /\ filteredData = <<>>
  /\ calls = <<>>
  /\ convertedRows = <<>>
  /\ emitted = <<>>

TimeIdle == dateStr = Undefined /\ utcStr = NotCalled

RowIdle == row = <<>> /\ mapped = NotCalled

Init == AppIdle /\ pending = {} /\ RunIdle /\ TimeIdle /\ RowIdle

\* handleFileUpload with no file chosen
NoFileSelected ==
  /\ error' = "No file selected"
  /\ UNCHANGED <<koinlyCsv, pending, lastRun, dateStr, utcStr, row, mapped>>

\* handleFileUpload with a file: the error is cleared and the parse started
handleFileUpload(results) ==
  /\ Cardinality(pending) < MaxPending
  /\ error' = ""
  /\ pending' = pending \cup {results}
  /\ UNCHANGED <<koinlyCsv, lastRun, dateStr, utcStr, row, mapped>>

\* complete without the return that follows setError
completeWithoutReturn(results) ==
  /\ results \in pending
  /\ pending' = pending \ {results}
  /\ data' = results.data
  /\ error' = (IF results.errors THEN "Error parsing CSV file" ELSE error)
  /\ filteredData' = (IF filterRows(results.data).status = "threw" THEN <<>>
                      ELSE filterRows(results.data).val)
  /\ calls' = (IF filterRows(results.data).status = "threw" THEN <<>>
               ELSE convertCalls(filteredData'))
  /\ outcome' = (IF \/ filterRows(results.data).status = "threw"
                    \/ \E i \in 1..Len(calls') : calls'[i].outcome.status = "threw"
                 THEN "threw" ELSE "returned")
  /\ convertedRows' = (IF outcome' = "threw" THEN <<>>
                       ELSE [i \in 1..Len(calls') |-> calls'[i].outcome.val])
  /\ emitted' = (IF outcome' = "threw" THEN <<>>
                 ELSE [k \in 1..Len(convertedRows') |-> rowValues(convertedRows'[k])])
  /\ koinlyCsv' = (IF outcome' = "threw" THEN koinlyCsv
                   ELSE generateKoinlyCsv(convertedRows'))
  /\ UNCHANGED <<dateStr, utcStr, row, mapped>>

\* the complete callback of a parse in flight.  An exception thrown by the
\* filter or by convertRow leaves the callback before setKoinlyCsv.
complete(results) ==
  /\ results \in pending
  /\ pending' = pending \ {results}
  /\ data' = results.data
  /\ IF results.errors
     THEN /\ error' = "Error parsing CSV file"
          /\ outcome' = "parse-error"
          /\ filteredData' = <<>>
          /\ calls' = <<>>
          /\ convertedRows' = <<>>
          /\ emitted' = <<>>
          /\ UNCHANGED koinlyCsv
     ELSE /\ filteredData' = (IF filterRows(results.data).status = "threw" THEN <<>>
                              ELSE filterRows(results.data).val)
          /\ calls' = (IF filterRows(results.data).status = "threw" THEN <<>>
                       ELSE convertCalls(filteredData'))
          /\ outcome' = (IF \/ filterRows(results.data).status = "threw"
                            \/ \E i \in 1..Len(calls') : calls'[i].outcome.status = "threw"
                         THEN "threw" ELSE "returned")
          /\ convertedRows' = (IF outcome' = "threw" THEN <<>>
                               ELSE [i \in 1..Len(calls') |-> calls'[i].outcome.val])
          /\ emitted' = (IF outcome' = "threw" THEN <<>>
                         ELSE [k \in 1..Len(convertedRows') |-> rowValues(convertedRows'[k])])
          /\ koinlyCsv' = (IF outcome' = "threw" THEN koinlyCsv
                           ELSE generateKoinlyCsv(convertedRows'))
          /\ UNCHANGED error
  /\ UNCHANGED <<dateStr, utcStr, row, mapped>>

\* what App renders: the error paragraph and the download block
errorShown == error # ""

downloadOffered == koinlyCsv # ""

\* the complete callback of any of the parses in flight
completeCallback == \E results \in pending : complete(results)

Next ==
  \/ NoFileSelected
  \/ \E results \in ParseResults : handleFileUpload(results)
  \/ completeCallback

Spec == Init /\ [][Next]_vars

\* ------------------------------------------------------------------------
\* The complete callback on each file: the App with that one parse in flight

InitBatch ==
  /\ AppIdle /\ RunIdle /\ TimeIdle /\ RowIdle
  /\ \E d \in FileData : pending = {Parsed(d)}

NextBatch == \E results \in pending : complete(results)

SpecBatch == InitBatch /\ [][NextBatch]_vars

\* ------------------------------------------------------------------------
\* The complete callback on one-row files whose fields hold commas, double
\* quotes and line breaks

MaxFieldLen == 3

FieldChars == {"a", ",", "\"", "\n"}

RECURSIVE StringsOfLen(_)
StringsOfLen(n) ==
  IF n = 0 THEN {""}
  ELSE {t \o c : t \in StringsOfLen(n - 1), c \in FieldChars}

\* every text over FieldChars of up to MaxFieldLen characters
FieldStrings == UNION {StringsOfLen(n) : n \in 0..MaxFieldLen}

\* what the other fields of the row hold
Fillers == {Str("x"), Str("l\nm"), Undefined}

\* the keys of a source row whose text reaches a field of the target record
FieldKeys ==
  {"Order Type", "Fiat Amount", "Fiat Code", "Crypto Amount", "Crypto Code",
   "Miner Fee", "Transaction Hash"}

\* a row with text s under key, f under the other keys, and orderType as its
\* Order Type unless key is "Order Type"
FieldRow(key, s, f, orderType) ==
  LET v(k) == IF k = key THEN Str(s) ELSE f
  IN SourceRow(IF key = "Order Type" THEN Str(s) ELSE Str(orderType),
               Str("2024-01-15 10:00:00"),
               v("Fiat Amount"), v("Fiat Code"), v("Crypto Amount"), v("Crypto Code"),
               v("Miner Fee"), v("Transaction Hash"))

FieldRows ==
  {FieldRow(key, s, f, ot) :
     key \in FieldKeys, s \in FieldStrings, f \in Fillers, ot \in {"Buy", "SELL"}}

InitCsv ==
  /\ AppIdle /\ RunIdle /\ TimeIdle /\ RowIdle
  /\ \E r \in FieldRows : pending = {Parsed(<<r>>)}

SpecCsv == InitCsv /\ [][NextBatch]_vars

\* One call of convertRow on each row

InitRow ==
  /\ AppIdle /\ pending = {} /\ RunIdle /\ TimeIdle
  /\ row \in RowInputs
  /\ mapped = NotCalled

MapRow ==
  /\ mapped.status = "idle"
  /\ mapped' = convertRow(row)
  /\ UNCHANGED <<koinlyCsv, error, pending, lastRun, dateStr, utcStr, row>>

SpecRow == InitRow /\ [][MapRow]_vars

\* One call of convertMountainTimeToUTC on each order date

InitTime ==
  /\ AppIdle /\ pending = {} /\ RunIdle /\ RowIdle
  /\ dateStr \in TimeInputs
  /\ utcStr = NotCalled

NormalizeTime ==
  /\ utcStr.status = "idle"
  /\ utcStr' = convertMountainTimeToUTC(dateStr)
  /\ UNCHANGED <<koinlyCsv, error, pending, lastRun, dateStr, row, mapped>>

SpecTime == InitTime /\ [][NormalizeTime]_vars

\* ------------------------------------------------------------------------
\* Properties.  The helpers below restate what the specification says, in
\* terms of the characters of the texts, for comparison with what the code
\* computes.

\* character c is the lower-case letter l or its capital
SameLetter(c, l) ==
  \/ c = l
  \/ \E k \in 1..Len(LowerCaseLetters) :
       CharAt(LowerCaseLetters, k) = l /\ CharAt(UpperCaseLetters, k) = c

\* text contains the lower-case word, whatever the case of its letters
ContainsWord(text, word) ==
  \E i \in 1..(Len(text) - Len(word) + 1) :
    \A j \in 1..Len(word) : SameLetter(CharAt(text, i + j - 1), CharAt(word, j))

HasKey(r, key) == key \in DOMAIN r

\* the value under key, emptied when it is absent, empty or the placeholder
Emptied(r, key) ==
  IF HasKey(r, key) /\ r[key] \notin {"", "-"} THEN Str(r[key]) ELSE Str("")

\* the value under key, empty when it is absent
OrBlank(r, key) == IF HasKey(r, key) THEN Str(r[key]) ELSE Str("")

IsSwapRow(r) == ContainsWord(r["Order Type"], "swap")

\* the indices of the rows of d that are not swaps
KeptIndices(d) == {i \in 1..Len(d) : ~IsSwapRow(d[i])}

\* the index in d of the k-th row that is not a swap
NthKept(d, k) ==
  CHOOSE i \in KeptIndices(d) : Cardinality({j \in KeptIndices(d) : j <= i}) = k

AllHaveOrderType(d) == \A i \in 1..Len(d) : HasKey(d[i], "Order Type")

\* C1: the filter returns exactly the rows whose Order Type does not contain
\* "swap" in any letter case, each once and in their original order, so that
\* the output is shorter than the input by the number of swap rows.
C1_FilterDropsExactlySwaps ==
  (outcome \in {"returned", "threw"} /\ AllHaveOrderType(data)) =>
    /\ Len(filteredData) = Len(data) - Cardinality((1..Len(data)) \ KeptIndices(data))
    /\ \A k \in 1..Len(filteredData) : filteredData[k] = data[NthKept(data, k)]

\* a swap row that also says "buy" was dropped and the row after it kept
C1_Witness ==
  /\ outcome = "returned"
  /\ Len(data) = 2
  /\ AllHaveOrderType(data)
  /\ data[1]["Order Type"] = "sWAP: buy"
  /\ data[2]["Order Type"] = "SELL"
  /\ filteredData = <<data[2]>>

\* the rows convertRow's mapping claims are about: it read an Order Date and
\* an Order Type
Typed(r) == HasKey(r, "Order Date") /\ HasKey(r, "Order Type")

IsBuy(r) == ContainsWord(r["Order Type"], "buy")

IsSell(r) == ~IsBuy(r) /\ ContainsWord(r["Order Type"], "sell")

\* C2: a row whose Order Type contains "buy" in any letter case, also next to
\* "sell", maps to Label "Buy", the crypto side received verbatim, the fiat
\* code sent, and the fiat amount sent unless it is absent, empty or "-".
C2_BuyMapping ==
  (mapped.status # "idle" /\ Typed(row) /\ IsBuy(row)) =>
    /\ mapped.status = "returned"
    /\ mapped.val["Label"] = Str("Buy")
    /\ mapped.val["Received Amount"] = Get(row, "Crypto Amount")
    /\ mapped.val["Received Currency"] = Get(row, "Crypto Code")
    /\ mapped.val["Sent Currency"] = OrBlank(row, "Fiat Code")
    /\ mapped.val["Sent Amount"] = Emptied(row, "Fiat Amount")

\* a buy that also says "sell", with both amounts the placeholder
C2_Witness ==
  /\ mapped.status = "returned"
  /\ Typed(row)
  /\ row["Order Type"] = "bUY then sell"
  /\ Get(row, "Fiat Amount") = Str("-")
  /\ Get(row, "Crypto Amount") = Str("-")
  /\ mapped.val["Label"] = Str("Buy")
  /\ mapped.val["Sent Amount"] = Str("")
  /\ mapped.val["Received Amount"] = Str("-")

\* C3: a row whose Order Type contains "sell" and not "buy" maps to Label
\* "Sell", the crypto side sent verbatim, the fiat code received, and the fiat
\* amount received unless it is absent, empty or "-".
C3_SellMapping ==
  (mapped.status # "idle" /\ Typed(row) /\ IsSell(row)) =>
    /\ mapped.status = "returned"
    /\ mapped.val["Label"] = Str("Sell")
    /\ mapped.val["Sent Amount"] = Get(row, "Crypto Amount")
    /\ mapped.val["Sent Currency"] = Get(row, "Crypto Code")
    /\ mapped.val["Received Currency"] = OrBlank(row, "Fiat Code")
    /\ mapped.val["Received Amount"] = Emptied(row, "Fiat Amount")

\* a sell in capitals with the fiat amount the placeholder
C3_Witness ==
  /\ mapped.status = "returned"
  /\ Typed(row)
  /\ row["Order Type"] = "SELL"
  /\ Get(row, "Fiat Amount") = Str("-")
  /\ Get(row, "Crypto Amount") = Str("0.0021")
  /\ mapped.val["Label"] = Str("Sell")
  /\ mapped.val["Sent Amount"] = Str("0.0021")
  /\ mapped.val["Received Amount"] = Str("")

\* the same row with its Order Type replaced by a plain buy
AsBuy(r) == [r EXCEPT !["Order Type"] = "Buy"]

MoneyFields == {"Sent Amount", "Sent Currency", "Received Amount", "Received Currency"}

\* C4: a row that is neither buy nor sell gets the Sent and Received fields the
\* Buy mapping gives the same row, and its Order Type, letter case kept, as
\* Label.
C4_OtherMapping ==
  (mapped.status # "idle" /\ Typed(row) /\ ~IsBuy(row) /\ ~IsSell(row)) =>
    /\ mapped.status = "returned"
    /\ \A h \in MoneyFields : mapped.val[h] = convertRow(AsBuy(row)).val[h]
    /\ mapped.val["Sent Amount"] = Emptied(row, "Fiat Amount")
    /\ mapped.val["Received Amount"] = Get(row, "Crypto Amount")
    /\ mapped.val["Label"] = Str(row["Order Type"])

\* a deposit, capital kept, with the fiat amount the placeholder
C4_Witness ==
  /\ mapped.status = "returned"
  /\ Typed(row)
  /\ row["Order Type"] = "Deposit"
  /\ Get(row, "Fiat Amount") = Str("-")
  /\ mapped.val["Label"] = Str("Deposit")
  /\ mapped.val["Sent Amount"] = Str("")

\* C5: in every category the fee is the miner fee unless that is absent, empty
\* or "-", the fee currency is the crypto code, net worth and description are
\* empty, and TxHash is the transaction hash, empty when absent.
C5_CommonFields ==
  (mapped.status # "idle" /\ Typed(row)) =>
    /\ mapped.status = "returned"
    /\ mapped.val["Fee Amount"] = Emptied(row, "Miner Fee")
    /\ mapped.val["Fee Currency"] = OrBlank(row, "Crypto Code")
    /\ mapped.val["Net Worth Amount"] = Str("")
    /\ mapped.val["Net Worth Currency"] = Str("")
    /\ mapped.val["Description"] = Str("")
    /\ mapped.val["TxHash"] = OrBlank(row, "Transaction Hash")

\* a sell with a fiat code, no miner fee and no transaction hash
C5_Witness ==
  /\ mapped.status = "returned"
  /\ Typed(row)
  /\ IsSell(row)
  /\ Get(row, "Fiat Code") = Str("CAD")
  /\ Get(row, "Crypto Code") = Str("BTC")
  /\ Get(row, "Miner Fee") = Str("-")
  /\ ~HasKey(row, "Transaction Hash")
  /\ mapped.val["Fee Currency"] = Str("BTC")
  /\ mapped.val["Fee Amount"] = Str("")
  /\ mapped.val["TxHash"] = Str("")

\* s has the form "YYYY-MM-DD HH:mm:ss" and names a date and time that exist
IsWellFormedStamp(s) ==
  /\ Len(s) = 19
  /\ \A i \in 1..19 :
       IF i \in {5, 8} THEN CharAt(s, i) = "-"
       ELSE IF i = 11 THEN CharAt(s, i) = " "
       ELSE IF i \in {14, 17} THEN CharAt(s, i) = ":"
       ELSE IsDigit(CharAt(s, i))
  /\ ToNumber(SubSeq(s, 6, 7)) \in 1..12
  /\ ToNumber(SubSeq(s, 9, 10)) \in
       1..LastDayOfMonth(ToNumber(SubSeq(s, 1, 4)), ToNumber(SubSeq(s, 6, 7)))
  /\ ToNumber(SubSeq(s, 12, 13)) \in 0..23
  /\ ToNumber(SubSeq(s, 15, 16)) \in 0..59
  /\ ToNumber(SubSeq(s, 18, 19)) \in 0..59

\* the wall-clock reading seven hours after the well-formed stamp s, by
\* carrying the hour into the day, the month and the year; the minute is
\* copied and the seconds are left out
SevenHoursLater(s) ==
  LET y == ToNumber(SubSeq(s, 1, 4))
      m == ToNumber(SubSeq(s, 6, 7))
      d == ToNumber(SubSeq(s, 9, 10))
      h == ToNumber(SubSeq(s, 12, 13))
      nextDay == h + 7 >= 24
      nextMonth == nextDay /\ d = LastDayOfMonth(y, m)
      nextYear == nextMonth /\ m = 12
      h2 == IF nextDay THEN h + 7 - 24 ELSE h + 7
      d2 == IF nextMonth THEN 1 ELSE IF nextDay THEN d + 1 ELSE d
      m2 == IF nextYear THEN 1 ELSE IF nextMonth THEN m + 1 ELSE m
      y2 == IF nextYear THEN y + 1 ELSE y
  IN FourDigits(y2) \o "-" \o TwoDigits(m2) \o "-" \o TwoDigits(d2) \o " "
     \o TwoDigits(h2) \o ":" \o SubSeq(s, 15, 16) \o " UTC"

\* C6: a well-formed "YYYY-MM-DD HH:mm:ss" is converted to the reading seven
\* hours later, "YYYY-MM-DD HH:mm UTC", on every date, with the hour carried
\* into day, month and year, the minute unchanged and the seconds dropped.
C6_SevenHoursLater ==
  (utcStr.status # "idle" /\ dateStr.type = "string" /\ IsWellFormedStamp(dateStr.val)) =>
    utcStr = Returned(SevenHoursLater(dateStr.val))

\* the last evening of a leap year, 59 seconds past the half hour
C6_Witness ==
  /\ dateStr = Str("2024-12-31 17:30:59")
  /\ utcStr = Returned("2025-01-01 00:30 UTC")

\* C7: an Order Date that is not a well-formed "YYYY-MM-DD HH:mm:ss" makes the
\* conversion fail; no date text is returned for it.
C7_MalformedStampFails ==
  (utcStr.status # "idle" /\ dateStr.type = "string" /\ ~IsWellFormedStamp(dateStr.val)) =>
    utcStr.status = "threw"

\* the rows of d that survive the filter when an absent Order Type reads as ""
Survivors(d) == {i \in 1..Len(d) : ~ContainsWord(OrBlank(d[i], "Order Type").val, "swap")}

\* C8: whatever keys the rows of a parsed file lack, the filter and convertRow
\* complete without throwing and give one target record per surviving row.
C8_TotalOverMissingKeys ==
  (outcome \in {"returned", "threw"}) =>
    /\ outcome = "returned"
    /\ Len(convertedRows) = Cardinality(Survivors(data))

\* the raw text of field i of target record k
RawField(k, i) ==
  IF convertedRows[k][headers[i]].type = "undefined" THEN ""
  ELSE convertedRows[k][headers[i]].val

NeedsQuotes(raw) == \E i \in 1..Len(raw) : CharAt(raw, i) \in {",", "\""}

\* the number of double quotes among the first i - 1 characters of raw
QuotesBefore(raw, i) == Cardinality({j \in 1..(i - 1) : CharAt(raw, j) = "\""})

\* e is raw between double quotes with every double quote of raw doubled
IsQuotedForm(e, raw) ==
  /\ Len(e) = Len(raw) + 2 + QuotesBefore(raw, Len(raw) + 1)
  /\ CharAt(e, 1) = "\""
  /\ CharAt(e, Len(e)) = "\""
  /\ \A i \in 1..Len(raw) :
       LET p == 1 + i + QuotesBefore(raw, i)
       IN /\ CharAt(e, p) = CharAt(raw, i)
          /\ (CharAt(raw, i) = "\"" => CharAt(e, p + 1) = "\"")

\* C9: a field is emitted between double quotes, its double quotes doubled,
\* exactly when its raw text has a comma or a double quote; any other field,
\* an empty one and one with a newline included, is emitted as it is.
C9_EscapingRule ==
  (outcome = "returned") =>
    /\ Len(emitted) = Len(convertedRows)
    /\ \A k \in 1..Len(convertedRows) : \A i \in 1..Len(headers) :
         IF NeedsQuotes(RawField(k, i))
         THEN IsQuotedForm(emitted[k][i], RawField(k, i))
         ELSE emitted[k][i] = RawField(k, i)

\* Tom, "Bones" as a Label, and a hash with a newline emitted raw
C9_Witness ==
  /\ outcome = "returned"
  /\ Len(convertedRows) = 2
  /\ RawField(1, 10) = "Tom, \"Bones\""
  /\ emitted[1][10] = "\"Tom, \"\"Bones\"\"\""
  /\ RawField(1, 2) = "1,000.00"
  /\ emitted[1][2] = "\"1,000.00\""
  /\ RawField(2, 12) = "line1\nline2"
  /\ emitted[2][12] = "line1\nline2"
  /\ emitted[2][4] = ""

HeaderLine ==
  "Date,Sent Amount,Sent Currency,Received Amount,Received Currency,Fee Amount,Fee Currency,Net Worth Amount,Net Worth Currency,Label,Description,TxHash"

NewlinesIn(text) == Cardinality({i \in 1..Len(text) : CharAt(text, i) = "\n"})

\* C10: the CSV of n target records is the header line followed by exactly n
\* lines, joined by single newlines with none trailing: n + 1 lines in all.
C10_HeaderAndOneLinePerRecord ==
  (outcome = "returned") =>
    /\ SubSeq(koinlyCsv, 1, Len(HeaderLine)) = HeaderLine
    /\ NewlinesIn(koinlyCsv) = Len(convertedRows)

\* ------------------------------------------------------------------------
\* An RFC 4180 reader: a double quote opening a field starts a quoted section,
\* in which a doubled quote reads as one quote and a single one ends the
\* section; outside quotes a comma ends the field and a line break the record.

\* the index at which the field starting at start ends: that of the comma or
\* line break after it, or one past the end of text
RECURSIVE fieldEnd(_, _, _, _)
fieldEnd(text, start, i, quoted) ==
  IF i > Len(text) THEN i
  ELSE IF quoted
  THEN IF CharAt(text, i) # "\"" THEN fieldEnd(text, start, i + 1, TRUE)
       ELSE IF i < Len(text) /\ CharAt(text, i + 1) = "\""
       THEN fieldEnd(text, start, i + 2, TRUE)
       ELSE fieldEnd(text, start, i + 1, FALSE)
  ELSE IF CharAt(text, i) = "\"" /\ i = start THEN fieldEnd(text, start, i + 1, TRUE)
  ELSE IF CharAt(text, i) \in {",", "\n"} THEN i
  ELSE fieldEnd(text, start, i + 1, FALSE)

\* the text of a field as written: outer quotes stripped, doubled quotes
\* collapsed
RECURSIVE unquote(_, _, _)
unquote(written, i, quoted) ==
  IF i > Len(written) THEN ""
  ELSE IF quoted
  THEN IF CharAt(written, i) # "\"" THEN CharAt(written, i) \o unquote(written, i + 1, TRUE)
       ELSE IF i < Len(written) /\ CharAt(written, i + 1) = "\""
       THEN "\"" \o unquote(written, i + 2, TRUE)
       ELSE unquote(written, i + 1, FALSE)
  ELSE IF CharAt(written, i) = "\"" /\ i = 1 THEN unquote(written, i + 1, TRUE)
  ELSE CharAt(written, i) \o unquote(written, i + 1, FALSE)

RECURSIVE readFrom(_, _, _, _)
readFrom(text, start, record, records) ==
  LET end == fieldEnd(text, start, start, FALSE)
      field == unquote(SubSeq(text, start, end - 1), 1, FALSE)
  IN IF end > Len(text) THEN Append(records, Append(record, field))
     ELSE IF CharAt(text, end) = ","
     THEN readFrom(text, end + 1, Append(record, field), records)
     ELSE readFrom(text, end + 1, <<>>, Append(records, Append(record, field)))

\* the records of text, each the sequence of its fields
readCsv(text) == readFrom(text, 1, <<>>, <<>>)

\* a field with a line break that the escaping rule leaves unquoted
BareLineBreak(raw) == includes(raw, "\n") /\ ~NeedsQuotes(raw)

RowHasBareLineBreak(k) == \E j \in 1..Len(headers) : BareLineBreak(RawField(k, j))

\* the line breaks outside quotes in the first j fields of target record k
RECURSIVE BareLineBreaks(_, _)
BareLineBreaks(k, j) ==
  IF j = 0 THEN 0
  ELSE BareLineBreaks(k, j - 1)
       + (IF BareLineBreak(RawField(k, j)) THEN NewlinesIn(RawField(k, j)) ELSE 0)

\* the number of fields in the first n records
RECURSIVE FieldCount(_, _)
FieldCount(records, n) ==
  IF n = 0 THEN 0 ELSE FieldCount(records, n - 1) + Len(records[n])

\* C11: every raw field with a comma or a double quote, once serialised, is
\* read back by an RFC 4180 reader as one field equal to the raw text, so
\* that the stored CSV of one record reads back as the 12 header fields and
\* 12 fields of the record, plus one for each line break the record holds
\* outside quotes; when it holds none, the line of the record has 12 fields,
\* the field at its column.
C11_EscapingRoundTrips ==
  (outcome = "returned" /\ Len(convertedRows) = 1) =>
    \A i \in 1..Len(headers) :
      NeedsQuotes(RawField(1, i)) =>
        /\ readCsv(emitted[1][i]) = << <<RawField(1, i)>> >>
        /\ FieldCount(readCsv(koinlyCsv), Len(readCsv(koinlyCsv)))
             = 12 + 12 + BareLineBreaks(1, Len(headers))
        /\ ~RowHasBareLineBreak(1) =>
             /\ Len(readCsv(koinlyCsv)) = 2
             /\ Len(readCsv(koinlyCsv)[2]) = 12
             /\ readCsv(koinlyCsv)[2][i] = RawField(1, i)

\* a stored CSV whose record holds a field with a comma, a quote and a line
\* break, read back whole
C11_Witness ==
  /\ outcome = "returned"
  /\ Len(convertedRows) = 1
  /\ RawField(1, 12) = ",\"\n"
  /\ emitted[1][12] = "\",\"\"\n\""
  /\ ~RowHasBareLineBreak(1)
  /\ Len(readCsv(koinlyCsv)) = 2
  /\ readCsv(koinlyCsv)[2][12] = ",\"\n"

\* the step in which the complete callback of r runs
Completes(r) == r \in pending /\ pending' = pending \ {r}

\* C12: the complete callback of a parse that reported errors runs neither
\* the filter nor convertRow nor generateKoinlyCsv; it sets the error to
\* "Error parsing CSV file" and leaves koinlyCsv as it was, so an earlier CSV
\* stays offered for download next to the error; koinlyCsv changes only in
\* the callback of a parse that reported no errors.
C12_FailedParseKeepsCsv ==
  [][/\ \A r \in pending :
          (r.errors /\ Completes(r)) =>
             /\ outcome' = "parse-error"
             /\ filteredData' = <<>> /\ calls' = <<>>
             /\ convertedRows' = <<>> /\ emitted' = <<>>
             /\ error' = "Error parsing CSV file" /\ errorShown'
             /\ koinlyCsv' = koinlyCsv
             /\ downloadOffered => downloadOffered'
     /\ koinlyCsv' # koinlyCsv =>
          \E r \in pending : ~r.errors /\ Completes(r) /\ outcome' = "returned"
    ]_vars

\* after a file was converted, a parse that handed over rows and reported
\* errors has completed: the error and the earlier CSV are both on the page
C12_Witness ==
  /\ outcome = "parse-error"
  /\ data # <<>>
  /\ errorShown /\ error = "Error parsing CSV file"
  /\ downloadOffered
  /\ NewlinesIn(koinlyCsv) = 1

====
